---- MODULE Spec2Model ----
(***************************************************************************)
(* Model of the image-to-PDF backend (express + multer + sharp + pdfkit,   *)
(* with an optional Supabase audit store).  One slot is one in-flight      *)
(* POST /convert handler invocation; the actions cut the async handler at  *)
(* its await points.  ui is the state of the React frontend (App.jsx) and  *)
(* sh the state of one run of restore-database.sh.                         *)
(***************************************************************************)
EXTENDS Integers, Sequences, FiniteSets, TLC

VARIABLES inbox, pc, req, local, doc, res, calls,
          env, supabase, supabaseConnected, store, now, ui, sh

vars == <<inbox, pc, req, local, doc, res, calls,
          env, supabase, supabaseConnected, store, now, ui, sh>>

\* The state of the server process and of the audit store.
serverVars == <<inbox, pc, req, local, doc, res, calls,
                env, supabase, supabaseConnected, store, now>>

\* ------------------------------------------------------------- bounds
\* Most files the user selects in the frontend.
MaxUiFiles == 2
\* Clicks on the Convert button in one run of the frontend.
MaxClicks == 3
\* Longest file list that is enumerated exhaustively.
MaxFiles == 2
\* Handler invocations that can be in flight at once.
MaxSlots == 2

Slots == 1..MaxSlots

\* ---------------------------------------------------- multer limits
\* limits.files
FILES_LIMIT == 20
\* limits.fileSize
FILE_SIZE_LIMIT == 10 * 1024 * 1024

\* ------------------------------------------------------ JS values
Undefined == [kind |-> "undefined"]
Str(s) == [kind |-> "string", val |-> s]
\* A multipart text field sent twice arrives as an array.
Arr == [kind |-> "array"]
Num(n) == [kind |-> "number", val |-> n]

\* Destructuring default: applies to undefined only.
Default(v, d) == IF v.kind = "undefined" THEN d ELSE v

\* v || d for a header or a JSON string: undefined and "" are falsy.
OrElse(v, d) ==
    IF v.kind = "undefined" THEN d
    ELSE IF v.kind = "string" /\ v.val = "" THEN d
    ELSE v

\* --------------------------------------------------- uploaded files
\* A file as multer sees it: declared media type, byte size, and the
\* buffer's real content (encoded format, picture, pixel dimensions).
MkFile(type, subtype, size, fmt, pixels, w, h) ==
    [mimetype |-> [type |-> type, subtype |-> subtype],
     size |-> size,
     buffer |-> [fmt |-> fmt, pixels |-> pixels, width |-> w, height |-> h,
                 quality |-> 0, progressive |-> FALSE]]

F_jpeg    == MkFile("image", "jpeg", 1024, "jpeg", "A", 2, 3)
F_gif     == MkFile("image", "gif", 2048, "gif", "B", 5, 5)
\* JPEG variant that sharp rejects and pdfkit reads.
F_unsup   == MkFile("image", "jpeg", 4096, "jpeg_unsup", "C", 7, 4)
\* Declared an image, bytes are not one.
F_corrupt == MkFile("image", "jpeg", 512, "corrupt", "D", 0, 0)
F_text    == MkFile("text", "plain", 64, "corrupt", "E", 0, 0)
F_big     == MkFile("image", "jpeg", FILE_SIZE_LIMIT + 1, "jpeg", "F", 9, 9)

FileKinds == {F_jpeg, F_gif, F_unsup, F_corrupt, F_text, F_big}

\* prefix followed by n ordinary JPEG files
Pad(prefix, n) == prefix \o [i \in 1..n |-> F_jpeg]

FileLists ==
    UNION {[1..n -> FileKinds] : n \in 0..MaxFiles}
    \cup {Pad(<<>>, FILES_LIMIT), Pad(<<>>, FILES_LIMIT + 1),
          Pad(<<F_big>>, FILES_LIMIT), Pad(<<F_text>>, FILES_LIMIT),
          Pad(<<F_gif, F_unsup>>, FILES_LIMIT - 2),
          Pad(<<>>, FILES_LIMIT) \o <<F_big>>}

\* ------------------------------------------------- request fields
Tiers == {Undefined, Str("normal"), Str("compressed"), Str("ultra"),
          Str("high"), Arr}

\* Filenames as sequences of UTF-16 code units.
N_converted == <<99, 111, 110, 118, 101, 114, 116, 101, 100>>
\* "My File!@#.pdf"
N_myfile == <<77, 121, 32, 70, 105, 108, 101, 33, 64, 35, 46, 112, 100, 102>>
\* "../a"
N_dots == <<46, 46, 47, 97>>
\* a " CR LF Z
N_inject == <<97, 34, 13, 10, 90>>
\* e-acute - _ 9
N_accent == <<233, 45, 95, 57>>
\* the characters next to and at the ends of 0-9, A-Z, a-z
N_edges == <<47, 48, 57, 58, 64, 65, 90, 91, 96, 97, 122, 123>>
\* Kelvin sign and long s, which fold to k and s under Unicode case folding
N_fold == <<8490, 383>>

Filenames == {Undefined, Arr, Str(<<>>), Str(N_myfile), Str(N_dots),
              Str(N_inject), Str(N_accent), Str(N_edges), Str(N_fold)}

\* The JSON body of a request that carries none.
NoPayload == [filename |-> Undefined, file_count |-> Undefined,
              compression_level |-> Undefined, user_id |-> Undefined]

ConvertRequest(fs, t, n) ==
    [route |-> "POST /convert", files |-> fs,
     body |-> [compressionLevel |-> t, filename |-> n],
     userId |-> Undefined, payload |-> NoPayload]

ConvertRequests ==
    {ConvertRequest(fs, t, n) : fs \in FileLists, t \in Tiers, n \in Filenames}

\* A request of a route without upload; payload is its JSON body.
JsonRequest(route, payload) ==
    [route |-> route, files |-> <<>>,
     body |-> [compressionLevel |-> Undefined, filename |-> Undefined],
     userId |-> Undefined, payload |-> payload]

GetConversionsRequest == JsonRequest("GET /conversions", NoPayload)
HealthRequest == JsonRequest("GET /health", NoPayload)

\* Bodies of POST /conversions: complete, without user_id, with a level the
\* table rejects, and empty.
LogPayloads ==
    {[filename |-> Str(N_converted), file_count |-> Num(3),
      compression_level |-> Str("ultra"), user_id |-> Str("u1")],
     [filename |-> Str(N_converted), file_count |-> Num(1),
      compression_level |-> Str("normal"), user_id |-> Undefined],
     [filename |-> Str(N_converted), file_count |-> Num(1),
      compression_level |-> Str("high"), user_id |-> Undefined],
     NoPayload}

LogRequests == {JsonRequest("POST /conversions", p) : p \in LogPayloads}

\* ------------------------------------------------ multer (upload)
\* fileFilter: cb(null, true) iff the declared type starts with "image/".
FileFilter(file) == file.mimetype.type = "image"

MulterError(code) == [multer |-> TRUE, code |-> code, message |-> code]
FilterError == [multer |-> FALSE, code |-> "",
                message |-> "Only image files are allowed"]
NoError == [multer |-> FALSE, code |-> "", message |-> ""]

\* upload.array("images"): the parts are read in stream order and the first
\* violation aborts the upload.  The part after the FILES_LIMIT-th file hits
\* the count limit at its header; the filter runs at a part's header, the
\* size limit while its data is read.
RECURSIVE UploadScan(_, _)
UploadScan(files, i) ==
    IF i > Len(files) THEN NoError
    ELSE IF i > FILES_LIMIT THEN MulterError("LIMIT_FILE_COUNT")
    ELSE IF ~FileFilter(files[i]) THEN FilterError
    ELSE IF files[i].size > FILE_SIZE_LIMIT THEN MulterError("LIMIT_FILE_SIZE")
    ELSE UploadScan(files, i + 1)

\* --------------------------------------------------- HTTP response
\* shape and data describe a JSON body: "error" ({error, message}),
\* "array" (data: the rows), "row" (data: the one row), "message".
FreshRes == [statusCode |-> 200, contentType |-> "", disposition |-> <<>>,
             headersSent |-> FALSE, json |-> "", message |-> "",
             chunks |-> <<>>, ended |-> FALSE, shape |-> "", data |-> <<>>]

\* Variant: .status(code) is left out.
JsonResNoStatus(r0, code, error, message) ==
    [r0 EXCEPT !.contentType = "application/json",
               !.headersSent = TRUE, !.json = error, !.message = message,
               !.ended = TRUE, !.shape = "error"]

\* res.status(code).json({error, message}): sets the type, writes, ends.
JsonRes(r0, code, error, message) ==
    [r0 EXCEPT !.statusCode = code, !.contentType = "application/json",
               !.headersSent = TRUE, !.json = error, !.message = message,
               !.ended = TRUE, !.shape = "error"]

\* res.json(body) with the default status.
JsonOk(r0, shape, data, message) ==
    [r0 EXCEPT !.contentType = "application/json", !.headersSent = TRUE,
               !.message = message, !.ended = TRUE, !.shape = shape,
               !.data = data]

\* Variant: the branch for LIMIT_FILE_COUNT is missing.
ErrorMiddlewareNoCount(error, r0) ==
    IF error.multer /\ error.code = "LIMIT_FILE_SIZE"
    THEN JsonRes(r0, 400, "File too large. Maximum size is 10MB.", "")
    ELSE JsonRes(r0, 500, error.message, "")

\* Error handling middleware.
ErrorMiddleware(error, r0) ==
    IF error.multer /\ error.code = "LIMIT_FILE_SIZE"
    THEN JsonRes(r0, 400, "File too large. Maximum size is 10MB.", "")
    ELSE IF error.multer /\ error.code = "LIMIT_FILE_COUNT"
    THEN JsonRes(r0, 400, "Too many files. Maximum is 20 files.", "")
    ELSE JsonRes(r0, 500, error.message, "")

\* ---------------------------------------------------- compression
\* Variant: the default label sits on the "compressed" case.
QualityForDefault60(compressionLevel) ==
    IF compressionLevel = Str("ultra") THEN 30
    ELSE IF compressionLevel = Str("normal") THEN 90
    ELSE 60

\* The switch of compressImage (strict equality on the tier value).
QualityFor(compressionLevel) ==
    IF compressionLevel = Str("ultra") THEN 30
    ELSE IF compressionLevel = Str("compressed") THEN 60
    ELSE 90

\* sharp decodes these formats; anything else makes toBuffer() reject.
SharpDecodes(buffer) == buffer.fmt \in {"jpeg", "png", "gif"}

\* sharp(buffer).jpeg({quality, progressive: true}).toBuffer()
SharpJpeg(buffer, quality) ==
    [fmt |-> "jpeg", pixels |-> buffer.pixels, width |-> buffer.width,
     height |-> buffer.height, quality |-> quality, progressive |-> TRUE]

\* Variant: no try/catch around the re-encoding.
CompressImageNoCatch(buffer, compressionLevel) ==
    [quality |-> QualityFor(compressionLevel),
     threw |-> ~SharpDecodes(buffer), rejected |-> ~SharpDecodes(buffer),
     result |-> SharpJpeg(buffer, QualityFor(compressionLevel))]

\* Variant: the catch returns nothing usable instead of the input buffer.
CompressImageCatchEmpty(buffer, compressionLevel) ==
    LET quality == QualityFor(compressionLevel) IN
    IF SharpDecodes(buffer)
    THEN [quality |-> quality, threw |-> FALSE, rejected |-> FALSE,
          result |-> SharpJpeg(buffer, quality)]
    ELSE [quality |-> quality, threw |-> TRUE, rejected |-> FALSE,
          result |-> [buffer EXCEPT !.fmt = "corrupt"]]

\* compressImage: how its promise settles.  threw: the re-encoding threw or
\* rejected inside the try; rejected: the promise of compressImage itself
\* rejects; result: the value it resolves to (the catch returns the input).
CompressImage(buffer, compressionLevel) ==
    LET quality == QualityFor(compressionLevel) IN
    IF SharpDecodes(buffer)
    THEN [quality |-> quality, threw |-> FALSE, rejected |-> FALSE,
          result |-> SharpJpeg(buffer, quality)]
    ELSE [quality |-> quality, threw |-> TRUE, rejected |-> FALSE,
          result |-> buffer]

\* -------------------------------------------- filename sanitization
\* Variant: the class also lets the dot through.
ClassCharsWithDot == (97..122) \cup (48..57) \cup {95, 45, 46}

\* The characters of the class a-z0-9_- .
ClassChars == (97..122) \cup (48..57) \cup {95, 45}

\* Canonicalize of a case-insensitive, non-unicode RegExp: the upper-case
\* code unit, except that a non-ASCII unit never maps to an ASCII one.
Canonicalize(c) ==
    IF c \in 97..122 THEN c - 32
    ELSE IF c = 233 THEN 201
    ELSE c

\* /[^a-z0-9_-]/i matches the code unit c.
MatchesNegClass(c) == ~ \E d \in ClassChars : Canonicalize(d) = Canonicalize(c)

\* Variant: the matched characters are removed (replacement '').
ReplaceStrip(chars) == SelectSeq(chars, LAMBDA c : ~MatchesNegClass(c))

\* filename.replace(/[^a-z0-9_-]/gi, '_')
Replace(chars) ==
    [i \in 1..Len(chars) |-> IF MatchesNegClass(chars[i]) THEN 95 ELSE chars[i]]

DotPdf == <<46, 112, 100, 102>>

\* ----------------------------------------------------------- pdfkit
\* doc.openImage reads JPEG and PNG data and throws on anything else.
OpenImageThrows(buffer) == buffer.fmt \notin {"jpeg", "png", "jpeg_unsup"}

\* Variant: width and height swapped in the page size.
PageForSwapped(img) ==
    [image |-> img, size |-> <<img.height, img.width>>, x |-> 0, y |-> 0]

\* doc.addPage({size: [img.width, img.height]}); doc.image(img, 0, 0)
PageFor(img) ==
    [image |-> img, size |-> <<img.width, img.height>>, x |-> 0, y |-> 0]

FreshDoc == [created |-> FALSE, pages |-> <<>>, buffered |-> <<>>,
             piped |-> FALSE, ended |-> FALSE]

\* --------------------------------------------------- audit store
\* The CHECK and NOT NULL constraints of table conversions.
RowAccepted(row) ==
    /\ row.filename.kind = "string"
    /\ row.file_count.kind = "number"
    /\ row.compression_level \in {Str("normal"), Str("compressed"), Str("ultra")}

\* Variant: an upsert that overwrites the newest row.
StoreUpsert(st, row) ==
    IF st = <<>> THEN <<[row EXCEPT !.id = 1]>>
    ELSE [st EXCEPT ![Len(st)] = [row EXCEPT !.id = Len(st)]]

\* .insert(row): the table gains one row with a generated id.
StoreInsert(st, row) == Append(st, [row EXCEPT !.id = Len(st) + 1])

\* .limit(50) of the history query
HISTORY_LIMIT == 50

\* .order('created_at', {ascending: false}).limit(n) over the rows with
\* index in left; rows of equal created_at come in either order.
RECURSIVE TakeNewest(_, _, _, _)
TakeNewest(st, left, n, tieFirst) ==
    IF n = 0 \/ left = {} THEN <<>>
    ELSE LET top == CHOOSE k \in left : \A j \in left :
                        \/ st[j].created_at < st[k].created_at
                        \/ /\ st[j].created_at = st[k].created_at
                           /\ IF tieFirst THEN j >= k ELSE j <= k
         IN <<st[top]>> \o TakeNewest(st, left \ {top}, n - 1, tieFirst)

\* Variant: the query without .limit(50).
QueryAll(st, tieFirst) == TakeNewest(st, DOMAIN st, Len(st), tieFirst)

\* from('conversions').select('*').order(...).limit(50)
QueryRecent(st, tieFirst) == TakeNewest(st, DOMAIN st, HISTORY_LIMIT, tieFirst)

\* How the store can answer an insert of row through the client: the row is
\* stored or rejected by a constraint, the call resolves with another error
\* (store unreachable), or it throws.
InsertAnswers(client, row) ==
    IF client # "client" THEN {"throw"}
    ELSE {IF RowAccepted(row) THEN "stored" ELSE "rejected", "error", "throw"}

\* new Date(): the clock has not moved since the last reading, or has.
ClockReads(t, reads) == IF reads THEN {t, t + 1} ELSE {t}

\* Rows already in the table at startup, inserted by anyone at any time:
\* n rows whose created_at are the numbers 1..n in a scrambled order.
SeedRow(k, n) ==
    [id |-> k, filename |-> Str(N_converted), file_count |-> Num(1),
     compression_level |-> Str("normal"), user_id |-> Str("seed"),
     created_at |-> ((k * 7) % (n + 1))]
SeedStore(n) == [k \in 1..n |-> SeedRow(k, n)]

\* ------------------------------------------------- startup probe
PlaceholderUrls == {"https://your-project-id.supabase.co",
                    "https://your-project.supabase.co"}
EnvUrls == {"", "https://abc.supabase.co"} \cup PlaceholderUrls
EnvKeys == {"", "anon-key"}
\* process.env: every combination, and the two that matter most (nothing
\* set, both set to real values).
Envs == {[SUPABASE_URL |-> url, SUPABASE_ANON_KEY |-> key] :
            url \in EnvUrls, key \in EnvKeys}
MainEnvs == {[SUPABASE_URL |-> "", SUPABASE_ANON_KEY |-> ""],
             [SUPABASE_URL |-> "https://abc.supabase.co",
              SUPABASE_ANON_KEY |-> "anon-key"]}

\* Variant: only the first placeholder value is tested for.
StartupProbeOnePlaceholder(url, key, importFails, probeThrows) ==
    IF importFails THEN [supabase |-> "null", connected |-> FALSE]
    ELSE IF url # "" /\ key # "" /\ url # "https://your-project-id.supabase.co"
    THEN [supabase |-> "client", connected |-> ~probeThrows]
    ELSE [supabase |-> "null", connected |-> FALSE]

\* Module top level: the client exists iff the import worked and both
\* variables are set to non-placeholder values; the flag is set iff the
\* probe query did not throw.
StartupProbe(url, key, importFails, probeThrows) ==
    IF importFails THEN [supabase |-> "null", connected |-> FALSE]
    ELSE IF url # "" /\ key # "" /\ url \notin PlaceholderUrls
    THEN [supabase |-> "client", connected |-> ~probeThrows]
    ELSE [supabase |-> "null", connected |-> FALSE]

\* ------------------------------------------------------------ state
\* App.jsx after mount: the useState defaults, and the loadConversions call
\* of the mount effect in flight.  files is the number of selected files;
\* converts holds one entry per handleConvert invocation that has not
\* returned; clicks, downloads and alerts count what has happened.
FreshUi == [files |-> 0, loading |-> FALSE, compressionLevel |-> "normal",
            filename |-> "converted", converts |-> <<>>, loads |-> 1,
            conversions |-> "none", clicks |-> 0, downloads |-> 0,
            alerts |-> 0]

\* restore-database.sh before it is run.  exit is -1 while the script has
\* not exited; resets and applied count the runs of `supabase db reset` and
\* of the commands that feed the backup file to the database.
ShNotRun == [pc |-> "idle", arg |-> "", isFile |-> FALSE, hasCli |-> FALSE,
             reply |-> "", exit |-> -1, resets |-> 0, applied |-> 0]

NoReq == [route |-> "", files |-> <<>>,
          body |-> [compressionLevel |-> Undefined, filename |-> Undefined],
          userId |-> Undefined, payload |-> NoPayload]
\* pending: the files whose compressImage call has started and not settled;
\* row: the insert payload in flight; outcome: how the store answered.
NoLocal == [compressionLevel |-> Undefined, sanitizedFilename |-> <<>>,
            i |-> 0, row |-> <<>>, pending |-> {}, outcome |-> ""]

\* One request per run: any POST /convert, GET /conversions or
\* POST /conversions.
MainInboxes ==
    {<<q>> : q \in ConvertRequests \cup {GetConversionsRequest, HealthRequest}
                    \cup LogRequests}

InitWith(inboxes, stores, envs) ==
    /\ inbox \in inboxes
    /\ store \in stores
    /\ now = Len(store)
    /\ pc = [r \in Slots |-> "free"]
    /\ req = [r \in Slots |-> NoReq]
    /\ local = [r \in Slots |-> NoLocal]
    /\ doc = [r \in Slots |-> FreshDoc]
    /\ res = [r \in Slots |-> FreshRes]
    /\ calls = [r \in Slots |-> <<>>]
    /\ ui = FreshUi
    /\ sh = ShNotRun
    /\ env \in envs
    /\ \E importFails \in BOOLEAN, probeThrows \in BOOLEAN :
          LET s == StartupProbe(env.SUPABASE_URL, env.SUPABASE_ANON_KEY,
                                importFails, probeThrows) IN
          /\ supabase = s.supabase
          /\ supabaseConnected = s.connected

Init == InitWith(MainInboxes, {<<>>}, MainEnvs)

\* The stream of a piped document has data, or its end, to hand to res.
FlowPending(r) ==
    /\ doc[r].piped
    /\ \/ doc[r].buffered # <<>>
       \/ doc[r].ended /\ ~res[r].ended

\* A request arrives and express starts its middleware chain.
Receive(r) ==
    /\ inbox # <<>>
    /\ pc[r] = "free"
    /\ \A q \in Slots : q < r => pc[q] # "free"
    /\ pc' = [pc EXCEPT ![r] = IF Head(inbox).route = "POST /convert"
                               THEN "upload" ELSE "handler"]
    /\ req' = [req EXCEPT ![r] = Head(inbox)]
    /\ inbox' = Tail(inbox)
    /\ UNCHANGED <<local, doc, res, calls, supabase, supabaseConnected, store,
                   now>>
    /\ UNCHANGED <<env, ui, sh>>

\* Variant: after the error answer the chain still goes on to the handler.
UploadArrayContinues(r) ==
    /\ pc[r] = "upload"
    /\ LET err == UploadScan(req[r].files, 1) IN
       /\ pc' = [pc EXCEPT ![r] = "handler"]
       /\ res' = IF err = NoError THEN res
                 ELSE [res EXCEPT ![r] = ErrorMiddleware(err, res[r])]
    /\ UNCHANGED <<inbox, req, local, doc, calls, supabase, supabaseConnected,
                   store, now>>
    /\ UNCHANGED <<env, ui, sh>>

\* Variant: storage that keeps no file bytes in memory.
MemoryStorageNone(files) == <<>>

\* multer.memoryStorage(): the bytes of every file of the upload are kept
\* in memory, as file.buffer.
MemoryStorage(files) == [k \in 1..Len(files) |-> files[k].buffer]

\* The uploaded buffers request r holds in memory: all of req.files, from
\* the end of the upload to the end of the handler.
InMemory(r) ==
    IF pc[r] \in {"handler", "await_compress", "await_insert"}
    THEN MemoryStorage(req[r].files)
    ELSE <<>>

\* upload.array("images"): next() to the handler, or next(err) to the
\* error handling middleware.
UploadArray(r) ==
    /\ pc[r] = "upload"
    /\ LET err == UploadScan(req[r].files, 1) IN
       IF err = NoError
       THEN /\ pc' = [pc EXCEPT ![r] = "handler"]
            /\ res' = res
       ELSE /\ pc' = [pc EXCEPT ![r] = "done"]
            /\ res' = [res EXCEPT ![r] = ErrorMiddleware(err, res[r])]
    /\ UNCHANGED <<inbox, req, local, doc, calls, supabase, supabaseConnected,
                   store, now>>
    /\ UNCHANGED <<env, ui, sh>>

\* Variant: only the missing-array half of the test.
NoImagesProvidedOff(files) == FALSE

\* The validation of the handler.
NoImagesProvided(files) == Len(files) = 0

\* One compressImage call, as recorded when its promise settles.
CallRecord(buffer, compressionLevel) ==
    LET c == CompressImage(buffer, compressionLevel) IN
    [input |-> buffer, level |-> compressionLevel, quality |-> c.quality,
     threw |-> c.threw, rejected |-> c.rejected, result |-> c.result]

\* The record the handler inserts for a finished conversion (id: none yet).
AuditRow(r, sanitizedFilename, compressionLevel, t) ==
    [id |-> 0,
     filename |-> Str(sanitizedFilename),
     file_count |-> Num(Len(req[r].files)),
     compression_level |-> compressionLevel,
     user_id |-> OrElse(req[r].userId, Str("anonymous")),
     created_at |-> t]

\* Variant: compressionLevel is one module-level variable.
SetLocalShared(loc, r, v) ==
    [q \in Slots |-> IF q = r THEN v
                     ELSE [loc[q] EXCEPT !.compressionLevel = v.compressionLevel]]

\* The const declarations of one handler invocation.
SetLocal(loc, r, v) == [loc EXCEPT ![r] = v]

\* Variant: the next compressImage call is not held back by the await.
PendingAfterNoAwait(pending, i, last) ==
    IF last THEN pending ELSE pending \cup {i + 1}

\* The for-of loop with its await: file i has settled, and unless it was the
\* last the call for file i + 1 starts.
PendingAfter(pending, i, last) ==
    IF last THEN pending \ {i} ELSE (pending \ {i}) \cup {i + 1}

\* Variant: the catch answers without looking at res.headersSent.
ConvertCatchAlways(r0, message) == JsonRes(r0, 500, "Conversion failed", message)

\* catch of app.post("/convert"): the 500 JSON answer, unless the response
\* has started.
ConvertCatch(r0, message) ==
    IF r0.headersSent THEN r0
    ELSE JsonRes(r0, 500, "Conversion failed", message)

\* app.post("/convert") from its entry to the first await.
ConvertHandler(r) ==
    /\ pc[r] = "handler"
    /\ req[r].route = "POST /convert"
    /\ LET compressionLevel == Default(req[r].body.compressionLevel, Str("normal"))
           filename == Default(req[r].body.filename, Str(N_converted))
       IN
       IF NoImagesProvided(req[r].files)
       THEN /\ res' = [res EXCEPT ![r] = JsonRes(res[r], 400, "No images provided", "")]
            /\ pc' = [pc EXCEPT ![r] = "done"]
            /\ UNCHANGED <<local, doc>>
       ELSE IF filename.kind # "string"
       THEN \* filename.replace is not a function: caught, no header sent yet
            /\ res' = [res EXCEPT ![r] = ConvertCatch(res[r],
                                      "filename.replace is not a function")]
            /\ pc' = [pc EXCEPT ![r] = "done"]
            /\ UNCHANGED <<local, doc>>
       ELSE LET sanitizedFilename == Replace(filename.val) \o DotPdf
                \* the for-of loop has nothing to iterate: doc.end() at once
                empty == Len(req[r].files) = 0
            IN
            /\ res' = [res EXCEPT ![r].contentType = "application/pdf",
                                  ![r].disposition = sanitizedFilename]
            /\ doc' = [doc EXCEPT ![r] = [FreshDoc EXCEPT
                            !.created = TRUE, !.piped = TRUE,
                            !.buffered = IF empty THEN <<"%PDF", "%%EOF">>
                                         ELSE <<"%PDF">>,
                            !.ended = empty]]
            /\ local' = SetLocal(local, r, [NoLocal EXCEPT
                            !.compressionLevel = compressionLevel,
                            !.sanitizedFilename = sanitizedFilename,
                            !.i = IF empty THEN 0 ELSE 1,
                            !.pending = IF empty THEN {} ELSE {1},
                            !.row = IF empty /\ supabaseConnected
                                    THEN <<AuditRow(r, sanitizedFilename,
                                                    compressionLevel, now)>>
                                    ELSE <<>>])
            /\ pc' = [pc EXCEPT ![r] = IF ~empty THEN "await_compress"
                                       ELSE IF supabaseConnected THEN "await_insert"
                                       ELSE "done"]
    /\ UNCHANGED <<inbox, req, calls, supabase, supabaseConnected, store, now>>
    /\ UNCHANGED <<env, ui, sh>>

\* The readable side of doc hands its buffered data to res (the first write
\* sends the headers) and, once the document has ended, ends res.
PipeFlow(r) ==
    /\ FlowPending(r)
    /\ doc' = [doc EXCEPT ![r].buffered = <<>>]
    /\ res' = IF res[r].ended THEN res
              ELSE [res EXCEPT ![r].headersSent = TRUE,
                               ![r].chunks = @ \o doc[r].buffered,
                               ![r].ended = doc[r].ended]
    /\ UNCHANGED <<inbox, pc, req, local, calls, supabase, supabaseConnected,
                   store, now>>
    /\ UNCHANGED <<env, ui, sh>>

\* compressImage settles for file i; the handler continues to its next
\* await: openImage, addPage, image, then the next file or doc.end().
CompressSettled(r) ==
    /\ pc[r] = "await_compress"
    /\ ~FlowPending(r)
    /\ LET i == local[r].i
           call == CallRecord(req[r].files[i].buffer, local[r].compressionLevel)
           compressedBuffer == call.result
       IN
       /\ calls' = [calls EXCEPT ![r] = Append(@, call)]
       /\ IF call.rejected \/ OpenImageThrows(compressedBuffer)
          THEN \* catch of the handler
               /\ res' = [res EXCEPT ![r] = ConvertCatch(res[r],
                                                         "Unknown image format.")]
               /\ pc' = [pc EXCEPT ![r] = "done"]
               /\ local' = [local EXCEPT ![r].pending = @ \ {i}]
               /\ UNCHANGED <<doc, now>>
          ELSE LET last == i = Len(req[r].files)
                   pages == Append(doc[r].pages, PageFor(compressedBuffer))
               IN
               /\ res' = res
               /\ doc' = [doc EXCEPT ![r].pages = pages,
                                     ![r].buffered = IF last THEN <<"image", "%%EOF">>
                                                     ELSE <<"image">>,
                                     ![r].ended = last]
               /\ \E t \in ClockReads(now, last /\ supabaseConnected) :
                     /\ now' = t
                     /\ local' = [local EXCEPT
                           ![r].i = IF last THEN i ELSE i + 1,
                           ![r].pending = PendingAfter(@, i, last),
                           ![r].row = IF last /\ supabaseConnected
                                      THEN <<AuditRow(r, local[r].sanitizedFilename,
                                                      local[r].compressionLevel, t)>>
                                      ELSE <<>>]
               /\ pc' = [pc EXCEPT ![r] = IF ~last THEN "await_compress"
                                          ELSE IF supabaseConnected THEN "await_insert"
                                          ELSE "done"]
    /\ UNCHANGED <<inbox, req, supabase, supabaseConnected, store>>
    /\ UNCHANGED <<env, ui, sh>>

\* Variant: a failed audit insert is answered with an error response.
InsertSettledFailing(r) ==
    /\ pc[r] = "await_insert"
    /\ ~FlowPending(r)
    /\ \E outcome \in InsertAnswers(supabase, local[r].row[1]) :
          /\ store' = IF outcome = "stored" THEN StoreInsert(store, local[r].row[1])
                      ELSE store
          /\ local' = [local EXCEPT ![r].outcome = outcome]
          /\ res' = IF outcome = "stored" THEN res
                    ELSE [res EXCEPT ![r] = JsonRes(res[r], 500,
                                                   "Conversion failed", "")]
    /\ pc' = [pc EXCEPT ![r] = "done"]
    /\ UNCHANGED <<inbox, req, doc, calls, supabase, supabaseConnected, now>>
    /\ UNCHANGED <<env, ui, sh>>

\* The audit insert settles: stored, answered with an error, or thrown;
\* the handler logs a throw and returns.
InsertSettled(r) ==
    /\ pc[r] = "await_insert"
    /\ ~FlowPending(r)
    /\ \E outcome \in InsertAnswers(supabase, local[r].row[1]) :
          /\ store' = IF outcome = "stored" THEN StoreInsert(store, local[r].row[1])
                      ELSE store
          /\ local' = [local EXCEPT ![r].outcome = outcome]
    /\ pc' = [pc EXCEPT ![r] = "done"]
    /\ UNCHANGED <<inbox, req, doc, res, calls, supabase, supabaseConnected, now>>
    /\ UNCHANGED <<env, ui, sh>>

\* Variant: the query is made whatever the flag says.
GetConversionsNoGuard(r) ==
    /\ pc[r] = "handler"
    /\ req[r].route = "GET /conversions"
    /\ pc' = [pc EXCEPT ![r] = "await_select"]
    /\ UNCHANGED <<inbox, req, local, doc, res, calls, supabase,
                   supabaseConnected, store, now>>
    /\ UNCHANGED <<env, ui, sh>>

\* app.get("/conversions") up to its await.
GetConversions(r) ==
    /\ pc[r] = "handler"
    /\ req[r].route = "GET /conversions"
    /\ IF ~supabaseConnected
       THEN /\ res' = [res EXCEPT ![r] = JsonOk(res[r], "array", <<>>, "")]
            /\ pc' = [pc EXCEPT ![r] = "done"]
       ELSE /\ res' = res
            /\ pc' = [pc EXCEPT ![r] = "await_select"]
    /\ UNCHANGED <<inbox, req, local, doc, calls, supabase, supabaseConnected,
                   store, now>>
    /\ UNCHANGED <<env, ui, sh>>

\* Variant: a failed query marks the store as not connected.
SelectSettledDropsFlag(r) ==
    /\ pc[r] = "await_select"
    /\ \E answer \in IF supabase = "client" THEN {"data", "error", "throw"}
                     ELSE {"throw"},
          tieFirst \in BOOLEAN :
          /\ res' = [res EXCEPT ![r] =
                IF answer = "data"
                THEN JsonOk(res[r], "array", QueryRecent(store, tieFirst), "")
                ELSE JsonRes(res[r], 500, "Failed to fetch conversions", "")]
          /\ local' = [local EXCEPT ![r].outcome = answer]
          /\ supabaseConnected' = (supabaseConnected /\ answer = "data")
    /\ pc' = [pc EXCEPT ![r] = "done"]
    /\ UNCHANGED <<inbox, req, doc, calls, supabase, store, now>>
    /\ UNCHANGED <<env, ui, sh>>

\* The history query settles: with the rows, with an error, or thrown.
SelectSettled(r) ==
    /\ pc[r] = "await_select"
    /\ \E answer \in IF supabase = "client" THEN {"data", "error", "throw"}
                     ELSE {"throw"},
          tieFirst \in BOOLEAN :
          /\ res' = [res EXCEPT ![r] =
                IF answer = "data"
                THEN JsonOk(res[r], "array", QueryRecent(store, tieFirst), "")
                ELSE JsonRes(res[r], 500, "Failed to fetch conversions", "")]
          /\ local' = [local EXCEPT ![r].outcome = answer]
    /\ pc' = [pc EXCEPT ![r] = "done"]
    /\ UNCHANGED <<inbox, req, doc, calls, supabase, supabaseConnected, store,
                   now>>
    /\ UNCHANGED <<env, ui, sh>>

\* Variant: user_id is passed on as received.
LogRowNoDefault(payload, t) ==
    [id |-> 0,
     filename |-> payload.filename,
     file_count |-> payload.file_count,
     compression_level |-> payload.compression_level,
     user_id |-> payload.user_id,
     created_at |-> t]

\* The row POST /conversions inserts.
LogRow(payload, t) ==
    [id |-> 0,
     filename |-> payload.filename,
     file_count |-> payload.file_count,
     compression_level |-> payload.compression_level,
     user_id |-> OrElse(payload.user_id, Str("anonymous")),
     created_at |-> t]

\* app.post("/conversions") up to its await.
PostConversions(r) ==
    /\ pc[r] = "handler"
    /\ req[r].route = "POST /conversions"
    /\ IF ~supabaseConnected
       THEN /\ res' = [res EXCEPT ![r] =
                         JsonOk(res[r], "message", <<>>, "Database not available")]
            /\ pc' = [pc EXCEPT ![r] = "done"]
            /\ UNCHANGED <<local, now>>
       ELSE /\ res' = res
            /\ pc' = [pc EXCEPT ![r] = "await_log"]
            /\ \E t \in ClockReads(now, TRUE) :
                  /\ now' = t
                  /\ local' = [local EXCEPT ![r].row = <<LogRow(req[r].payload, t)>>]
    /\ UNCHANGED <<inbox, req, doc, calls, supabase, supabaseConnected, store>>
    /\ UNCHANGED <<env, ui, sh>>

\* The insert of POST /conversions settles; the inserted row is answered.
LogSettled(r) ==
    /\ pc[r] = "await_log"
    /\ \E outcome \in InsertAnswers(supabase, local[r].row[1]) :
          /\ store' = IF outcome = "stored" THEN StoreInsert(store, local[r].row[1])
                      ELSE store
          /\ res' = [res EXCEPT ![r] =
                IF outcome = "stored"
                THEN JsonOk(res[r], "row", <<store'[Len(store')]>>, "")
                ELSE JsonRes(res[r], 500, "Failed to log conversion", "")]
          /\ local' = [local EXCEPT ![r].outcome = outcome]
    /\ pc' = [pc EXCEPT ![r] = "done"]
    /\ UNCHANGED <<inbox, req, doc, calls, supabase, supabaseConnected, now>>
    /\ UNCHANGED <<env, ui, sh>>

\* app.get("/health"): status, timestamp, uptime and the connectivity flag.
Health(r) ==
    /\ pc[r] = "handler"
    /\ req[r].route = "GET /health"
    /\ \E t \in ClockReads(now, TRUE) :
          /\ now' = t
          /\ res' = [res EXCEPT ![r] = JsonOk(res[r], "health",
                        <<[status |-> "ok", timestamp |-> t, uptime |-> t,
                           database |-> IF supabaseConnected THEN "connected"
                                        ELSE "not configured"]>>, "")]
    /\ pc' = [pc EXCEPT ![r] = "done"]
    /\ UNCHANGED <<inbox, req, local, doc, calls, supabase, supabaseConnected,
                   store>>
    /\ UNCHANGED <<env, ui, sh>>

Next ==
    \E r \in Slots :
        \/ Receive(r)
        \/ UploadArray(r)
        \/ ConvertHandler(r)
        \/ PipeFlow(r)
        \/ CompressSettled(r)
        \/ InsertSettled(r)
        \/ GetConversions(r)
        \/ SelectSettled(r)
        \/ PostConversions(r)
        \/ LogSettled(r)
        \/ Health(r)

Spec == Init /\ [][Next]_vars

\* ------------------------------------------- concurrent requests
\* Requests for the runs with several requests in flight.
MixRequests ==
    {ConvertRequest(<<F_gif, F_unsup>>, Str("ultra"), Str(N_dots)),
     ConvertRequest(<<F_jpeg>>, Str("high"), Undefined),
     ConvertRequest(<<F_jpeg, F_corrupt>>, Str("compressed"), Str(N_inject)),
     GetConversionsRequest,
     HealthRequest,
     JsonRequest("POST /conversions",
                 [filename |-> Str(N_converted), file_count |-> Num(3),
                  compression_level |-> Str("ultra"), user_id |-> Str("u1")]),
     JsonRequest("POST /conversions",
                 [filename |-> Str(N_converted), file_count |-> Num(1),
                  compression_level |-> Str("high"), user_id |-> Undefined])}

\* One request, or two that arrive in either order and overlap in any way.
MixInboxes ==
    {<<a>> : a \in MixRequests} \cup {<<a, b>> : a, b \in MixRequests}

\* The table at startup: empty, small, one row under and one row over the
\* history limit.
MixStores ==
    {SeedStore(0), SeedStore(2), SeedStore(HISTORY_LIMIT - 1),
     SeedStore(HISTORY_LIMIT + 1)}

InitMix == InitWith(MixInboxes, MixStores, MainEnvs)

SpecMix == InitMix /\ [][Next]_vars

\* ------------------------------------------------ every environment
\* One request of each kind after a startup under every process.env.
InitStartup == InitWith({<<q>> : q \in MixRequests}, {<<>>}, Envs)

SpecStartup == InitStartup /\ [][Next]_vars

\* ----------------------------------------------- frontend (App.jsx)
\* handleChange / handleDrop: a non-empty selection replaces files.
SelectFiles ==
    /\ \E n \in 1..MaxUiFiles : ui' = [ui EXCEPT !.files = n]
    /\ UNCHANGED <<serverVars, sh>>

\* The select and the preset buttons.
SetCompressionLevel ==
    /\ \E v \in {"normal", "compressed", "ultra"} :
          /\ v # ui.compressionLevel
          /\ ui' = [ui EXCEPT !.compressionLevel = v]
    /\ UNCHANGED <<serverVars, sh>>

\* The filename input and the "Custom Name" button.
SetFilename ==
    /\ \E v \in {"converted", "my-document", ""} :
          /\ v # ui.filename
          /\ ui' = [ui EXCEPT !.filename = v]
    /\ UNCHANGED <<serverVars, sh>>

\* Variant: the button is disabled only for an empty selection.
ConvertButtonDisabledNoLoading == ui.files = 0

\* disabled={loading || files.length === 0}
ConvertButtonDisabled == ui.loading \/ ui.files = 0

\* A click on Convert: handleConvert up to its await of fetch.
HandleConvert ==
    /\ ~ConvertButtonDisabled
    /\ ui.clicks < MaxClicks
    /\ ui' = [ui EXCEPT
              !.loading = TRUE,
              !.clicks = @ + 1,
              !.converts = Append(@, [phase |-> "fetch", sent |-> ui.files,
                                      compressionLevel |-> ui.compressionLevel,
                                      filename |-> ui.filename])]
    /\ UNCHANGED <<serverVars, sh>>

\* converts without its k-th entry.
Without(converts, k) ==
    SubSeq(converts, 1, k - 1) \o SubSeq(converts, k + 1, Len(converts))

\* fetch settles: a response with res.ok, a response without, or a network
\* error.  The last two go through the catch: alert, then setLoading(false).
FetchSettled ==
    /\ \E k \in 1..Len(ui.converts), outcome \in {"ok", "not_ok", "rejected"} :
          /\ ui.converts[k].phase = "fetch"
          /\ ui' = IF outcome = "ok"
                   THEN [ui EXCEPT !.converts[k].phase = "blob"]
                   ELSE [ui EXCEPT !.converts = Without(@, k),
                                   !.alerts = @ + 1,
                                   !.loading = FALSE]
    /\ UNCHANGED <<serverVars, sh>>

\* res.blob() settles: the download, loadConversions() and
\* setLoading(false); or the catch.
BlobSettled ==
    /\ \E k \in 1..Len(ui.converts), outcome \in {"blob", "rejected"} :
          /\ ui.converts[k].phase = "blob"
          /\ ui' = IF outcome = "blob"
                   THEN [ui EXCEPT !.converts = Without(@, k),
                                   !.downloads = @ + 1,
                                   !.loads = @ + 1,
                                   !.loading = FALSE]
                   ELSE [ui EXCEPT !.converts = Without(@, k),
                                   !.alerts = @ + 1,
                                   !.loading = FALSE]
    /\ UNCHANGED <<serverVars, sh>>

\* A loadConversions call settles: setConversions on an ok response,
\* nothing otherwise.
LoadSettled ==
    /\ ui.loads > 0
    /\ \E outcome \in {"ok", "not_ok", "rejected"} :
          ui' = [ui EXCEPT !.loads = @ - 1,
                           !.conversions = IF outcome = "ok" THEN "rows" ELSE @]
    /\ UNCHANGED <<serverVars, sh>>

NextUi ==
    \/ SelectFiles
    \/ SetCompressionLevel
    \/ SetFilename
    \/ HandleConvert
    \/ FetchSettled
    \/ BlobSettled
    \/ LoadSettled

\* The frontend alone; the server is whatever answers its requests.
InitUi == InitWith({<<>>}, {<<>>},
                   {[SUPABASE_URL |-> "", SUPABASE_ANON_KEY |-> ""]})

SpecUi == InitUi /\ [][NextUi]_vars

\* --------------------------------------- restore-database.sh
\* What the script is run with: "$1", whether it names a regular file, and
\* whether `command -v supabase` finds the CLI.
ScriptArgs == {"", "backup.sql"}

\* The rows of the backup file.
BackupRows == SeedStore(1)

\* The script is started.
RestoreStart ==
    /\ sh.pc = "idle"
    /\ \E arg \in ScriptArgs, isFile \in BOOLEAN, hasCli \in BOOLEAN :
          sh' = [sh EXCEPT !.pc = "check_arg", !.arg = arg,
                           !.isFile = isFile /\ arg # "",
                           !.hasCli = hasCli]
    /\ UNCHANGED <<serverVars, ui>>

\* exit n
Exit(s, n) == [s EXCEPT !.pc = "exited", !.exit = n]

\* if [ -z "$1" ]: usage and exit 1
CheckArg ==
    /\ sh.pc = "check_arg"
    /\ sh' = IF sh.arg = "" THEN Exit(sh, 1) ELSE [sh EXCEPT !.pc = "check_file"]
    /\ UNCHANGED <<serverVars, ui>>

\* if [ ! -f "$BACKUP_FILE" ]: exit 1
CheckFile ==
    /\ sh.pc = "check_file"
    /\ sh' = IF ~sh.isFile THEN Exit(sh, 1) ELSE [sh EXCEPT !.pc = "check_cli"]
    /\ UNCHANGED <<serverVars, ui>>

\* if ! command -v supabase: exit 1
CheckCli ==
    /\ sh.pc = "check_cli"
    /\ sh' = IF ~sh.hasCli THEN Exit(sh, 1) ELSE [sh EXCEPT !.pc = "confirm"]
    /\ UNCHANGED <<serverVars, ui>>

\* What read -n 1 -r can leave in REPLY: one character, or nothing (Enter,
\* end of input).
Replies == {"y", "Y", "n", "N", "j", ""}

\* Variant: anything but n or N is taken as a yes.
MatchesYesUnlessNo(reply) == reply \notin {"n", "N"}

\* [[ $REPLY =~ ^[Yy]$ ]]
MatchesYes(reply) == reply \in {"y", "Y"}

\* read -p ... -n 1 -r; anything but y or Y: "Restore cancelled.", exit 0
Confirm ==
    /\ sh.pc = "confirm"
    /\ \E reply \in Replies :
          sh' = IF MatchesYes(reply)
                THEN [sh EXCEPT !.pc = "reset", !.reply = reply]
                ELSE [Exit(sh, 0) EXCEPT !.reply = reply]
    /\ UNCHANGED <<serverVars, ui>>

\* if supabase db reset --yes: on success the table is empty; on failure it
\* is left as it was or empty, and the script exits 1.
DbReset ==
    /\ sh.pc = "reset"
    /\ \E ok \in BOOLEAN, left \in {store, <<>>} :
          /\ store' = IF ok THEN <<>> ELSE left
          /\ sh' = IF ok THEN [sh EXCEPT !.pc = "restore", !.resets = @ + 1]
                   ELSE [Exit(sh, 1) EXCEPT !.resets = @ + 1]
    /\ UNCHANGED <<inbox, pc, req, local, doc, res, calls, env, supabase,
                   supabaseConnected, now, ui>>

\* psql "$DATABASE_URL" < file || supabase db shell < file: the second
\* command runs only if the first fails; the rows of the file are in the
\* table if one of them succeeds.
DbRestore ==
    /\ sh.pc = "restore"
    /\ \E psqlOk \in BOOLEAN, shellOk \in BOOLEAN :
          LET ok == psqlOk \/ shellOk
              runs == IF psqlOk THEN 1 ELSE 2
          IN
          /\ store' = IF ok THEN BackupRows ELSE store
          /\ sh' = IF ok THEN [Exit(sh, 0) EXCEPT !.applied = @ + runs]
                   ELSE [Exit(sh, 1) EXCEPT !.applied = @ + runs]
    /\ UNCHANGED <<inbox, pc, req, local, doc, res, calls, env, supabase,
                   supabaseConnected, now, ui>>

NextRestore ==
    \/ RestoreStart
    \/ CheckArg
    \/ CheckFile
    \/ CheckCli
    \/ Confirm
    \/ DbReset
    \/ DbRestore

\* One run of the script against a table of 0, 2 or 49 rows.
InitRestore == InitWith({<<>>}, {SeedStore(0), SeedStore(2),
                                 SeedStore(HISTORY_LIMIT - 1)}, MainEnvs)

SpecRestore == InitRestore /\ [][NextRestore]_vars

\* ================================================================
\* Properties
\* ================================================================

\* The characters [A-Za-z0-9_-], as code units.
AllowedChar(c) ==
    c \in (48..57) \cup (65..90) \cup (97..122) \cup {95, 45}

\* buffer b is the image of file f: its bytes untouched, or its picture
\* re-encoded as JPEG with the same pixel dimensions.
ImageOf(b, f) ==
    \/ b = f.buffer
    \/ /\ b.fmt = "jpeg"
       /\ b.pixels = f.buffer.pixels
       /\ b.width = f.buffer.width
       /\ b.height = f.buffer.height

C2_NoPdfForFailedRequest ==
    \A r \in Slots :
        (pc[r] = "done" /\ doc[r].created /\ ~doc[r].ended) =>
            /\ ~(res[r].headersSent /\ res[r].contentType = "application/pdf")
            /\ res[r].chunks = <<>>

\* C3: a request with 0 files never gets a PDF header, a PDF byte or a
\* document, and is answered 400 with a JSON error body.
C3_ZeroFiles400 ==
    \A r \in Slots :
        (req[r].route = "POST /convert" /\ Len(req[r].files) = 0) =>
            /\ res[r].contentType # "application/pdf"
            /\ res[r].disposition = <<>>
            /\ res[r].chunks = <<>>
            /\ ~doc[r].created
            /\ pc[r] = "done" =>
                  /\ res[r].statusCode = 400
                  /\ res[r].contentType = "application/json"
                  /\ res[r].json = "No images provided"
                  /\ res[r].ended

C3_Witness ==
    \E r \in Slots :
        /\ req[r].route = "POST /convert"
        /\ Len(req[r].files) = 0
        /\ pc[r] = "done"
        /\ res[r].statusCode = 400
        /\ res[r].json = "No images provided"

\* The first 20 files are each declared an image and within 10 MiB.
FirstTwentyPass(fs) ==
    \A i \in 1..20 :
        i <= Len(fs) => fs[i].mimetype.type = "image" /\ fs[i].size <= 10485760

\* C4 as claimed, taken for requests whose files are all declared images (so
\* that the type filter plays no part): more than 20 files are answered 400
\* with the file-count message.
C4_TooManyAlwaysCited ==
    \A r \in Slots :
        (/\ pc[r] = "done"
         /\ Len(req[r].files) > 20
         /\ \A i \in 1..Len(req[r].files) : req[r].files[i].mimetype.type = "image") =>
            /\ res[r].statusCode = 400
            /\ res[r].json = "Too many files. Maximum is 20 files."

\* C4 amended: a request with more than 20 files is answered with a JSON
\* error and never a PDF; the answer is the 400 citing the file-count limit
\* exactly when each of the first 20 files passes the type filter and the
\* size limit (the first violation in upload order is the one reported).
C4_TooManyCitedWhenFirst ==
    \A r \in Slots :
        (pc[r] = "done" /\ Len(req[r].files) > 20) =>
            /\ res[r].contentType = "application/json"
            /\ res[r].ended
            /\ res[r].chunks = <<>>
            /\ ~doc[r].created
            /\ FirstTwentyPass(req[r].files) <=>
                  (/\ res[r].statusCode = 400
                   /\ res[r].json = "Too many files. Maximum is 20 files.")

C4_Witness ==
    \E r \in Slots :
        /\ pc[r] = "done"
        /\ Len(req[r].files) = 21
        /\ res[r].statusCode = 400
        /\ res[r].json = "Too many files. Maximum is 20 files."

\* C5: a request in which some file exceeds 10 MiB is answered 400 with a
\* JSON error body, and no PDF is produced.
C5_OversizedIs400 ==
    \A r \in Slots :
        (/\ pc[r] = "done"
         /\ \E i \in 1..Len(req[r].files) : req[r].files[i].size > 10485760) =>
            /\ res[r].statusCode = 400
            /\ res[r].contentType = "application/json"
            /\ res[r].json # ""
            /\ ~doc[r].created

\* C6: a request in which some file is not declared an image is answered 400
\* with a JSON error body.
C6_NonImageIs400 ==
    \A r \in Slots :
        (/\ pc[r] = "done"
         /\ \E i \in 1..Len(req[r].files) :
               req[r].files[i].mimetype.type # "image") =>
            /\ res[r].statusCode = 400
            /\ res[r].contentType = "application/json"
            /\ res[r].json # ""

\* The quality the tier value of a request stands for.
TierQuality(level) ==
    CASE level = Str("normal") -> 90
      [] level = Str("compressed") -> 60
      [] level = Str("ultra") -> 30
      [] OTHER -> 90

\* C7: every compressImage call of a request uses the quality of the
\* request's tier field: normal 90, compressed 60, ultra 30, and 90 for an
\* omitted or unrecognized value; a re-encoded buffer carries that quality.
C7_QualityByTier ==
    \A r \in Slots :
        \A k \in 1..Len(calls[r]) :
            /\ calls[r][k].quality = TierQuality(req[r].body.compressionLevel)
            /\ ~calls[r][k].threw =>
                  calls[r][k].result.quality = calls[r][k].quality

\* An unrecognized tier value re-encoded at 90.
C7_Witness ==
    \E r \in Slots :
        /\ req[r].body.compressionLevel = Str("high")
        /\ Len(calls[r]) >= 1
        /\ ~calls[r][1].threw
        /\ calls[r][1].result.quality = 90

\* C8: the attachment filename of the Content-Disposition header is a run of
\* characters of [A-Za-z0-9_-] followed by ".pdf", and the PDF content type
\* is never set without it.
C8_HeaderFilenameSafe ==
    \A r \in Slots :
        LET d == res[r].disposition
            n == Len(d)
        IN
        /\ res[r].contentType = "application/pdf" => d # <<>>
        /\ d # <<>> =>
              /\ n >= 4
              /\ SubSeq(d, n - 3, n) = <<46, 112, 100, 102>>
              /\ \A i \in 1..(n - 4) : AllowedChar(d[i])

\* The name a " CR LF Z reaches the header as a___Z.pdf .
C8_Witness ==
    \E r \in Slots :
        /\ req[r].body.filename = Str(<<97, 34, 13, 10, 90>>)
        /\ res[r].disposition = <<97, 95, 95, 95, 90, 46, 112, 100, 102>>

C10_CompressNeverPropagates ==
    \A r \in Slots :
        \A k \in 1..Len(calls[r]) :
            LET c == calls[r][k] IN
            /\ ~c.rejected
            /\ c.input = req[r].files[k].buffer
            /\ c.threw => c.result = c.input
            /\ ~c.threw =>
                  /\ c.result # c.input
                  /\ c.result.fmt = "jpeg"
                  /\ c.result.progressive
                  /\ c.result.pixels = c.input.pixels
                  /\ c.result.width = c.input.width
                  /\ c.result.height = c.input.height

\* A call whose re-encoding threw and that handed back the uploaded bytes.
C10_Witness ==
    \E r \in Slots :
        \E k \in 1..Len(calls[r]) :
            /\ calls[r][k].threw
            /\ calls[r][k].result = req[r].files[k].buffer
            /\ calls[r][k].result.fmt = "corrupt"

\* The handler of a POST /convert request has left its image loop or ended.
LoopOver(r) ==
    /\ req[r].route = "POST /convert"
    /\ pc[r] \in {"done", "await_insert"}
    /\ calls[r] # <<>>

\* pdfkit can place these bytes on a page.
Readable(buffer) == buffer.fmt \in {"jpeg", "png", "jpeg_unsup"}

\* C11 as stated: whenever the re-encoding of some file of a request failed,
\* the request still succeeds with a finalised PDF of one page per file.
C11_FailureStillSucceeds ==
    \A r \in Slots :
        (LoopOver(r) /\ \E k \in 1..Len(calls[r]) : calls[r][k].threw)
        => /\ doc[r].ended
           /\ Len(doc[r].pages) = Len(req[r].files)

\* C11: the page of a file whose re-encoding failed holds the uploaded bytes
\* and the page of every other file holds its re-encoding; when every file
\* that failed to re-encode has bytes the PDF writer can read, the request
\* ends with a finalised PDF of one page per file and status 200; when one has
\* not, the conversion stops at that file and the document is never finalised.
C11_FallbackToOriginal ==
    \A r \in Slots :
        LET fs == req[r].files
            pg == doc[r].pages
            cs == calls[r]
        IN
        /\ \A k \in 1..Len(pg) :
              /\ cs[k].threw => pg[k].image = fs[k].buffer
              /\ ~cs[k].threw =>
                    /\ pg[k].image # fs[k].buffer
                    /\ pg[k].image.fmt = "jpeg"
                    /\ pg[k].image.progressive
                    /\ pg[k].image.pixels = fs[k].buffer.pixels
        /\ (LoopOver(r) /\ \A k \in 1..Len(cs) :
                              cs[k].threw => Readable(fs[k].buffer))
           => /\ doc[r].ended
              /\ Len(pg) = Len(fs)
              /\ Len(cs) = Len(fs)
              /\ res[r].statusCode = 200
              /\ res[r].contentType = "application/pdf"
        /\ (LoopOver(r) /\ \E k \in 1..Len(cs) :
                              cs[k].threw /\ ~Readable(fs[k].buffer))
           => /\ ~doc[r].ended
              /\ cs[Len(cs)].threw
              /\ ~Readable(fs[Len(cs)].buffer)
              /\ Len(pg) = Len(cs) - 1

\* A finished two-page PDF whose first file was re-encoded and whose second
\* file failed to re-encode and sits on its page as uploaded.
C11_Witness ==
    \E r \in Slots :
        /\ res[r].ended
        /\ doc[r].ended
        /\ Len(doc[r].pages) = 2
        /\ ~calls[r][1].threw
        /\ calls[r][2].threw
        /\ doc[r].pages[2].image = req[r].files[2].buffer
        /\ doc[r].pages[1].image.quality = 30

\* The response of a finished conversion: status 200, type application/pdf,
\* no JSON body, the PDF header, one image per file and the trailer.
CompletePdf(r) ==
    /\ res[r].statusCode = 200
    /\ res[r].contentType = "application/pdf"
    /\ res[r].shape = ""
    /\ res[r].json = ""
    /\ res[r].ended
    /\ res[r].chunks = <<"%PDF">> \o [k \in 1..Len(req[r].files) |-> "image"]
                                  \o <<"%%EOF">>

\* C12: the audit insert of a request is attempted only once its document is
\* finalised, and once that document has been flushed the client holds the
\* complete PDF response, whatever the store answered (stored, rejected,
\* error, throw) and whether or not a store is configured.
C12_AuditNeverBlocks ==
    \A r \in Slots :
        req[r].route = "POST /convert" =>
            /\ (pc[r] = "await_insert" \/ local[r].row # <<>>) => doc[r].ended
            /\ doc[r].ended =>
                  /\ res[r].statusCode = 200
                  /\ res[r].contentType = "application/pdf"
                  /\ res[r].shape = ""
            /\ (doc[r].ended /\ ~FlowPending(r)) => CompletePdf(r)
            /\ local[r].outcome # "" => CompletePdf(r)

\* A conversion whose audit insert came back with an error and whose client
\* holds the complete PDF.
C12_Witness ==
    \E r \in Slots :
        /\ req[r].route = "POST /convert"
        /\ local[r].outcome = "error"
        /\ res[r].ended
        /\ res[r].chunks[Len(res[r].chunks)] = "%%EOF"

\* The handler of a request of the given route has answered.
Answered(r, route) == req[r].route = route /\ pc[r] = "done"

NewestOf(rows, st) ==
    /\ Len(rows) = IF Len(st) < 50 THEN Len(st) ELSE 50
    /\ \A i \in 1..Len(rows) :
          /\ rows[i].id \in 1..Len(st)
          /\ st[rows[i].id] = rows[i]
    /\ \A i, j \in 1..Len(rows) :
          i < j => /\ rows[i].id # rows[j].id
                   /\ rows[i].created_at >= rows[j].created_at
    /\ \A k \in 1..Len(st) :
          (\A i \in 1..Len(rows) : rows[i].id # k)
          => \A i \in 1..Len(rows) : st[k].created_at <= rows[i].created_at

\* C14: the step in which the history query of GET /conversions comes back
\* with data answers at most 50 rows of the table as it is at that moment:
\* the most recent ones, ordered by created_at descending.
C14_NewestFifty ==
    [][\A r \in Slots :
          (/\ pc[r] = "await_select"
           /\ pc'[r] = "done"
           /\ res'[r].shape = "array")
          => NewestOf(res'[r].data, store)]_vars

\* A table of more than 50 rows answered with exactly 50, the first of them
\* the newest row of the table.
C14_Witness ==
    \E r \in Slots :
        /\ Answered(r, "GET /conversions")
        /\ res[r].shape = "array"
        /\ Len(res[r].data) = 50
        /\ Len(store) > 50
        /\ \A k \in 1..Len(store) :
              store[k].created_at <= res[r].data[1].created_at

StoreFailed(r) == local[r].outcome \in {"rejected", "error", "throw"}

C17_OneRecordPerConversion ==
    \A r \in Slots :
        req[r].route = "POST /convert" =>
            /\ (/\ pc[r] = "done"
                /\ doc[r].ended
                /\ supabaseConnected
                /\ local[r].outcome \in {"stored", "rejected"})
               => /\ Len(store) = 1
                  /\ store[1].filename = Str(local[r].sanitizedFilename)
                  /\ store[1].file_count = Num(Len(req[r].files))
            /\ res[r].statusCode = 400 => store = <<>>

\* C18: no step removes a record or changes a field of a record: each step
\* leaves every record of the table in place and unchanged, and the table
\* never shrinks.
C18_RecordsImmutable ==
    [][/\ Len(store') >= Len(store)
       /\ \A k \in 1..Len(store) : store'[k] = store[k]]_vars

\* Two records inserted by the service stand behind the records the table
\* held at startup, which are still the first ones.
C18_Witness ==
    /\ Len(store) >= 4
    /\ store[1].user_id = Str("seed")
    /\ store[2].user_id = Str("seed")
    /\ store[Len(store) - 1].user_id \in {Str("anonymous"), Str("u1")}
    /\ store[Len(store)].user_id \in {Str("anonymous"), Str("u1")}

\* C19: at most one compressImage call of a request is in flight; while the
\* call for file k is in flight the calls for files 1..k-1 have settled in
\* that order and exactly their pages are in the document, and no call for a
\* later file has started.
C19_OneCompressionInFlight ==
    \A r \in Slots :
        /\ Cardinality(local[r].pending) <= 1
        /\ (pc[r] = "await_compress") <=> (local[r].pending # {})
        /\ \A k \in local[r].pending :
              /\ k = local[r].i
              /\ k \in 1..Len(req[r].files)
              /\ Len(calls[r]) = k - 1
              /\ Len(doc[r].pages) = k - 1
              /\ ~doc[r].ended
        /\ \A k \in 1..Len(calls[r]) :
              calls[r][k].input = req[r].files[k].buffer

\* The call for the 20th file is in flight and 19 pages are in the document.
C19_Witness ==
    \E r \in Slots :
        /\ local[r].pending = {20}
        /\ Len(doc[r].pages) = 19
        /\ Len(calls[r]) = 19

\* What one in-flight request owns: its position, request, locals, document,
\* response and compressImage calls.
SlotState(r) == <<pc[r], req[r], local[r], doc[r], res[r], calls[r]>>
SlotStateNext(r) == <<pc'[r], req'[r], local'[r], doc'[r], res'[r], calls'[r]>>

\* Everything a POST /convert request holds comes from its own input.
OwnData(r) ==
    LET fs == req[r].files
        level == Default(req[r].body.compressionLevel, Str("normal"))
        name == Default(req[r].body.filename,
                        Str(<<99, 111, 110, 118, 101, 114, 116, 101, 100>>))
        d == res[r].disposition
    IN
    /\ pc[r] \in {"await_compress", "await_insert"} =>
          local[r].compressionLevel = level
    /\ Len(doc[r].pages) <= Len(fs)
    /\ \A k \in 1..Len(doc[r].pages) :
          /\ ImageOf(doc[r].pages[k].image, fs[k])
          /\ doc[r].pages[k].image \in {fs[k].buffer, calls[r][k].result}
    /\ \A k \in 1..Len(calls[r]) :
          /\ calls[r][k].input = fs[k].buffer
          /\ calls[r][k].quality = TierQuality(req[r].body.compressionLevel)
    /\ d # <<>> =>
          /\ Len(d) = Len(name.val) + 4
          /\ \A k \in 1..Len(name.val) :
                d[k] = IF AllowedChar(name.val[k]) THEN name.val[k] ELSE 95
          /\ local[r].sanitizedFilename = d
    /\ local[r].row # <<>> =>
          /\ local[r].row[1].filename = Str(d)
          /\ local[r].row[1].file_count = Num(Len(fs))
          /\ local[r].row[1].compression_level = level
    /\ (res[r].ended /\ doc[r].ended) =>
          Len(res[r].chunks) = Len(fs) + 2

\* C20: whatever the overlap of the requests in flight, each POST /convert
\* request holds only data of its own input (pages from its own files in its
\* own order, its own filename in the header, its own tier in every call and
\* in its audit row), every step changes the state of at most one request,
\* and the module-level client and flag are never written.
C20_RequestsIsolated ==
    /\ [](\A r \in Slots : req[r].route = "POST /convert" => OwnData(r))
    /\ [][/\ \A r1, r2 \in Slots :
                (r1 # r2 /\ SlotStateNext(r1) # SlotState(r1))
                => SlotStateNext(r2) = SlotState(r2)
          /\ supabase' = supabase
          /\ supabaseConnected' = supabaseConnected]_vars

\* Two conversions with different tiers, filenames and files are both in
\* their image loops, the first one past its first file.
C20_Witness ==
    \E r1, r2 \in Slots :
        /\ r1 # r2
        /\ pc[r1] = "await_compress"
        /\ pc[r2] = "await_compress"
        /\ local[r1].compressionLevel # local[r2].compressionLevel
        /\ local[r1].sanitizedFilename # local[r2].sanitizedFilename
        /\ Len(doc[r1].pages) = 1
        /\ doc[r1].pages[1].image.pixels # req[r2].files[1].buffer.pixels

\* C21: a POST /convert request answered 400 had no processing: no
\* compressImage call, no PDF document, no page, no application/pdf type, no
\* Content-Disposition, no handler local set, and its whole response is the
\* JSON error.
C21_ValidationBeforeProcessing ==
    \A r \in Slots :
        (req[r].route = "POST /convert" /\ res[r].statusCode = 400) =>
            /\ calls[r] = <<>>
            /\ ~doc[r].created
            /\ doc[r].pages = <<>>
            /\ res[r].contentType = "application/json"
            /\ res[r].disposition = <<>>
            /\ res[r].chunks = <<>>
            /\ local[r] = NoLocal
            /\ pc[r] = "done"

\* An upload whose first file is over 10 MiB: answered 400 for the size,
\* with nothing processed.
C21_Witness ==
    \E r \in Slots :
        /\ Len(req[r].files) > 1
        /\ req[r].files[1].size > FILE_SIZE_LIMIT
        /\ res[r].statusCode = 400
        /\ res[r].json = "File too large. Maximum size is 10MB."
        /\ calls[r] = <<>>

\* C22 as stated: a POST /convert request holds at most one image buffer in
\* memory at any time.
C22_OneBufferInMemory ==
    \A r \in Slots :
        req[r].route = "POST /convert" =>
            Len(InMemory(r)) + Cardinality(local[r].pending) <= 1

\* C22: while the handler of a POST /convert request runs, the buffers of
\* all N uploaded files are in memory, each the bytes of its file; what is
\* one at a time is the re-encoding: at most one compressImage call is in
\* flight.
C22_UploadHeldOneReencoding ==
    \A r \in Slots :
        req[r].route = "POST /convert" =>
            /\ pc[r] \in {"handler", "await_compress", "await_insert"} =>
                  /\ Len(InMemory(r)) = Len(req[r].files)
                  /\ \A k \in 1..Len(req[r].files) :
                        InMemory(r)[k] = req[r].files[k].buffer
            /\ Cardinality(local[r].pending) <= 1
            /\ pc[r] = "await_compress" => Len(InMemory(r)) >= local[r].i

\* Twenty uploaded buffers are held while the tenth file is re-encoded.
C22_Witness ==
    \E r \in Slots :
        /\ pc[r] = "await_compress"
        /\ local[r].pending = {10}
        /\ Len(InMemory(r)) = 20

\* C23: the record a POST /convert request submits to the audit store has a
\* compression_level among normal, compressed and ultra, and is never
\* rejected by the store.
C23_SubmittedRowSatisfiesCheck ==
    \A r \in Slots :
        (req[r].route = "POST /convert" /\ local[r].row # <<>>) =>
            /\ local[r].row[1].compression_level
                  \in {Str("normal"), Str("compressed"), Str("ultra")}
            /\ local[r].outcome # "rejected"

\* C24: no step of any request handler changes supabaseConnected or the
\* supabase client, whatever the store answers, so they stay as the startup
\* probe left them; and GET /health answers "connected" exactly when the
\* flag is set.
C24_FlagDecidedAtStartup ==
    /\ [][supabaseConnected' = supabaseConnected /\ supabase' = supabase]_vars
    /\ [](\A r \in Slots :
            Answered(r, "GET /health") =>
                /\ res[r].statusCode = 200
                /\ res[r].shape = "health"
                /\ res[r].data[1].status = "ok"
                /\ (res[r].data[1].database = "connected") <=> supabaseConnected)

\* GET /health answered "connected" in a run in which a query of another
\* request failed.
C24_Witness ==
    \E r1, r2 \in Slots :
        /\ Answered(r1, "GET /health")
        /\ res[r1].data[1].database = "connected"
        /\ req[r2].route = "GET /conversions"
        /\ local[r2].outcome \in {"error", "throw"}
        /\ res[r2].statusCode = 500

\* C25: the flag is set only with a client; a client exists only when
\* SUPABASE_URL and SUPABASE_ANON_KEY are both set and the URL is neither
\* placeholder; every handler that is at a store call has a client, and a
\* store call that threw did so with a client.
C25_ConnectedImpliesClient ==
    /\ supabaseConnected => supabase = "client"
    /\ supabase = "client" =>
          /\ env.SUPABASE_URL # ""
          /\ env.SUPABASE_ANON_KEY # ""
          /\ env.SUPABASE_URL # "https://your-project-id.supabase.co"
          /\ env.SUPABASE_URL # "https://your-project.supabase.co"
    /\ \A r \in Slots :
          /\ pc[r] \in {"await_select", "await_log", "await_insert"} =>
                supabase = "client"
          /\ local[r].outcome # "" => supabase = "client"

\* The URL is the second placeholder and the key is set: no client, and
\* GET /conversions answered [] without a query.
C25_Witness ==
    /\ env.SUPABASE_URL = "https://your-project.supabase.co"
    /\ env.SUPABASE_ANON_KEY # ""
    /\ supabase = "null"
    /\ \E r \in Slots :
          /\ Answered(r, "GET /conversions")
          /\ res[r].shape = "array"
          /\ local[r].outcome = ""

\* C26: once the handler of a POST /convert request is over and the stream
\* has nothing left to hand on, the response is complete: the PDF stream
\* has ended or a JSON error was sent.
C26_HandlerOverResponseComplete ==
    \A r \in Slots :
        (req[r].route = "POST /convert" /\ pc[r] = "done" /\ ~FlowPending(r))
        => res[r].ended

\* C27: the response of a POST /convert request is of one kind.  A response
\* with a JSON error has no PDF byte, no PDF type and no Content-Disposition,
\* and its document was never piped; a response that holds PDF bytes has
\* status 200, the PDF type and no JSON body.
C27_OneKindOfResponse ==
    \A r \in Slots :
        req[r].route = "POST /convert" =>
            /\ ~(res[r].json # "" /\ res[r].chunks # <<>>)
            /\ res[r].shape = "error" =>
                  /\ res[r].contentType = "application/json"
                  /\ res[r].disposition = <<>>
                  /\ ~doc[r].piped
                  /\ res[r].chunks = <<>>
            /\ res[r].chunks # <<>> =>
                  /\ res[r].statusCode = 200
                  /\ res[r].contentType = "application/pdf"
                  /\ res[r].shape = ""
                  /\ res[r].json = ""
            /\ res[r].statusCode = 400 => res[r].contentType # "application/pdf"

\* The conversion failed on its second file after the PDF headers and the
\* first page went out: the catch added no JSON body to the response.
C27_Witness ==
    \E r \in Slots :
        /\ pc[r] = "done"
        /\ Len(calls[r]) = 2
        /\ calls[r][2].threw
        /\ ~doc[r].ended
        /\ res[r].headersSent
        /\ res[r].chunks = <<"%PDF", "image">>
        /\ res[r].json = ""

\* C28: loading is true exactly while a handleConvert invocation has not
\* returned; there is never more than one such invocation; each submitted at
\* least one file; and every click has ended in a download or an alert or is
\* the one still in flight.
C28_LoadingWhileInFlight ==
    /\ ui.loading <=> (ui.converts # <<>>)
    /\ Len(ui.converts) <= 1
    /\ \A k \in 1..Len(ui.converts) : ui.converts[k].sent >= 1
    /\ ui.clicks = ui.downloads + ui.alerts + Len(ui.converts)

\* After one conversion that downloaded and one that failed, loading is
\* false again and the button is enabled.
C28_Witness ==
    /\ ui.downloads = 1
    /\ ui.alerts = 1
    /\ ui.converts = <<>>
    /\ ~ui.loading
    /\ ~ConvertButtonDisabled

====
